---- MODULE Spec2Model ----
(***************************************************************************)
(* Attack-graph reconstruction: the fact store (src/src/state.py), log     *)
(* ingestion (src/src/log_parser.py), the forward-chaining inference       *)
(* engine and the missing-step reconstructor (src/src/inference.py), the   *)
(* narrative generator (src/src/narratives.py).                            *)
(*                                                                         *)
(* Fact identifiers "type:host" are pairs <<type, host>>; the host part of *)
(* a network fact is the string "A_to_B" exactly as split(":")[1] yields   *)
(* it.  Confidences are Python floats in the source; here they are exact   *)
(* rationals <<numerator, denominator>> in lowest terms.  Timestamps are   *)
(* integer seconds.                                                        *)
(***************************************************************************)
EXTENDS Integers, Sequences, FiniteSets, TLC

VARIABLES
    state_info,          \* inference/log_parser's dict: fact -> info record
    state_order,         \* insertion order of the keys of state_info
    state_confidence,    \* dict: fact -> confidence
    current_states,      \* set of facts
    applied_rules,       \* list of applied-rule records
    G_nodes,             \* graph nodes: node -> attributes
    G_edges,             \* graph edges: set of <<from, to>>
    observed_logs,       \* state.observed_logs
    negative_evidence,   \* state.negative_evidence: fact -> list of logs
    hypothetical_states, \* state.hypothetical_states: fact -> hypothesis
    event_counter,       \* log_parser.event_counter
    rebound,             \* reset_state has rebound the names of module state
    now,                 \* the wall clock read by now()
    calls,               \* how many operations were called
    last,                \* the last operation called and what it returned
    narratives           \* the list generate_narrative_variants returned last

vars == <<state_info, state_order, state_confidence, current_states,
          applied_rules, G_nodes, G_edges, observed_logs, negative_evidence,
          hypothetical_states, event_counter, rebound, now, calls, last,
          narratives>>

---------------------------------------------------------------------------
(* Bounds of the model *)

\* operations called in a run of the model
MaxCalls == 4
\* operations called to build a store in SpecStores
MaxStoreCalls == 2
\* clock advances (of one half-life each) between operations
MaxTicks == 1
\* passes of the while loop of run_inference the model follows
MaxPasses == 6
\* the times calculate_time_gap_penalty is applied to, in steps of 300 s
MaxGapSteps == 24
\* operations called in SpecNarratives
MaxNarrativeCalls == 3
MaxEvidenceCalls == 3
MaxOpsCalls == 4
\* the largest max_variants generate_narrative_variants is called with
MaxVariants == 6

---------------------------------------------------------------------------
(* Exact arithmetic on confidences *)

Abs(x) == IF x < 0 THEN -x ELSE x

RECURSIVE Gcd(_, _)
Gcd(a, b) == IF b = 0 THEN a ELSE Gcd(b, a % b)

\* the rational n/d (d > 0) in lowest terms
Rat(n, d) == LET g == Gcd(Abs(n), d) IN <<n \div g, d \div g>>

Mul(x, y) == Rat(x[1] * y[1], x[2] * y[2])
Add(x, y) == Rat(x[1] * y[2] + y[1] * x[2], x[2] * y[2])
Sub(x, y) == Rat(x[1] * y[2] - y[1] * x[2], x[2] * y[2])
Leq(x, y) == x[1] * y[2] <= y[1] * x[2]
Less(x, y) == x[1] * y[2] < y[1] * x[2]
MinR(x, y) == IF Leq(x, y) THEN x ELSE y
MaxR(x, y) == IF Leq(x, y) THEN y ELSE x
MinOf(S) == CHOOSE m \in S : \A x \in S : Leq(m, x)
MaxInt(S) == CHOOSE m \in S : \A x \in S : x <= m

RECURSIVE PowInt(_, _)
PowInt(b, k) == IF k = 0 THEN 1 ELSE b * PowInt(b, k - 1)

\* x ** k for a rational x # 0 and an integer k
Pow(x, k) ==
    IF k >= 0 THEN Rat(PowInt(x[1], k), PowInt(x[2], k))
    ELSE Rat(PowInt(x[2], -k), PowInt(x[1], -k))

Zero == <<0, 1>>
One == <<1, 1>>
Half == <<1, 2>>

---------------------------------------------------------------------------
(* Facts, logs and rules *)

None == "None"

Fact(type, host) == <<type, host>>
StateType(s) == s[1]
HostOf(s) == s[2]
NetHost(src, dst) == src \o "_to_" \o dst

Log(event_type, timestamp, host, src, dst, privilege) ==
    [event_type |-> event_type, timestamp |-> timestamp, host |-> host,
     src |-> src, dst |-> dst, privilege |-> privilege]

\* the clock at start, and an event time after it
TIME_DECAY_HALF_LIFE == 3600
Now0 == 2 * TIME_DECAY_HALF_LIFE
Future == Now0 + TIME_DECAY_HALF_LIFE

scenario_1 ==
    << Log("login", 0, "A", None, None, "user"),
       Log("smb_session", 300, None, "A", "B", None),
       Log("sudo", 600, "A", None, None, None),
       Log("lsass_access", 900, "A", None, None, None) >>

scenario_3 ==
    << Log("login", 0, "A", None, None, "user"),
       Log("smb_session", 300, None, "A", "B", None) >>

admin_only == << Log("sudo", 600, "A", None, None, None) >>

effect_before_cause ==
    << Log("sudo", 50, "A", None, None, None),
       Log("login", 100, "A", None, None, "user") >>

logout_A == << Log("logout", 900, "A", None, None, None) >>

dump_ahead ==
    << Log("lsass_access", Future, "A", None, None, None),
       Log("smb_session", 300, None, "A", "B", None) >>

login_B == << Log("login", 300, "B", None, None, "user") >>

\* a login on A, then evidence of tools that gives no fact: an escalation on
\* A and a process dump on B
tool_traces ==
    << Log("login", 0, "A", None, None, "user"),
       Log("privilege_escalation", 600, "A", None, None, None),
       Log("proc_dump", 900, "B", None, None, None) >>

\* an escalation on B with no login there
sudo_B == << Log("sudo", 600, "B", None, None, None) >>

LogBatches ==
    {scenario_1, scenario_3, admin_only, effect_before_cause, logout_A,
     dump_ahead, login_B}

\* the rule list with the lateral movement of the first version of the program
rules_vuln_lateral ==
    << [name |-> "Privilege Escalation on A",
        pre |-> {Fact("user_access", "A")},
        post |-> {Fact("admin_access", "A")},
        confidence |-> Rat(7, 10), tactic |-> "Privilege Escalation"],
       [name |-> "Credential Dumping on A",
        pre |-> {Fact("admin_access", "A")},
        post |-> {Fact("credential_dumped", "A")},
        confidence |-> Rat(8, 10), tactic |-> "Credential Access"],
       [name |-> "Lateral Movement A_to_B",
        pre |-> {Fact("credential_dumped", "A"), Fact("network_access", "A_to_B"),
                 Fact("vuln_lateral", "B")},
        post |-> {Fact("user_access", "B")},
        confidence |-> Rat(6, 10), tactic |-> "Lateral Movement"],
       [name |-> "Privilege Escalation on B",
        pre |-> {Fact("user_access", "B")},
        post |-> {Fact("admin_access", "B")},
        confidence |-> Rat(7, 10), tactic |-> "Privilege Escalation"] >>

rules ==
    << [name |-> "Privilege Escalation on A",
        pre |-> {Fact("user_access", "A")},
        post |-> {Fact("admin_access", "A")},
        confidence |-> Rat(7, 10), tactic |-> "Privilege Escalation"],
       [name |-> "Credential Dumping on A",
        pre |-> {Fact("admin_access", "A")},
        post |-> {Fact("credential_dumped", "A")},
        confidence |-> Rat(8, 10), tactic |-> "Credential Access"],
       [name |-> "Lateral Movement A_to_B",
        pre |-> {Fact("credential_dumped", "A"), Fact("network_access", "A_to_B")},
        post |-> {Fact("user_access", "B")},
        confidence |-> Rat(6, 10), tactic |-> "Lateral Movement"],
       [name |-> "Privilege Escalation on B",
        pre |-> {Fact("user_access", "B")},
        post |-> {Fact("admin_access", "B")},
        confidence |-> Rat(7, 10), tactic |-> "Privilege Escalation"] >>

Reverse(s) == [i \in 1..Len(s) |-> s[Len(s) + 1 - i]]

\* two rules that share a postcondition
overlap_rules ==
    << [name |-> "Escalate from session",
        pre |-> {Fact("network_access", "A_to_B")},
        post |-> {Fact("admin_access", "A")},
        confidence |-> Rat(7, 10), tactic |-> "Privilege Escalation"],
       [name |-> "Dump and move",
        pre |-> {Fact("credential_dumped", "A")},
        post |-> {Fact("admin_access", "A"), Fact("user_access", "B")},
        confidence |-> Rat(6, 10), tactic |-> "Lateral Movement"] >>

\* two rules of one name, and a rule without preconditions
twin_rules ==
    << [name |-> "Twin",
        pre |-> {Fact("user_access", "A")},
        post |-> {Fact("admin_access", "A")},
        confidence |-> Rat(7, 10), tactic |-> "Privilege Escalation"],
       [name |-> "Twin",
        pre |-> {Fact("user_access", "A")},
        post |-> {Fact("credential_dumped", "A")},
        confidence |-> Rat(8, 10), tactic |-> "Credential Access"],
       [name |-> "Foothold",
        pre |-> {},
        post |-> {Fact("user_access", "A")},
        confidence |-> Rat(5, 10), tactic |-> "Initial Access"] >>

\* the shipped rules with base confidence 0.5 and 0.4 on the first two
weak_rules ==
    [i \in 1..Len(rules) |->
        [rules[i] EXCEPT !.confidence =
            IF i = 1 THEN Half ELSE IF i = 2 THEN Rat(4, 10) ELSE @]]

\* rules about movement: escalation on B by a user who got there by the
\* unknown lateral movement, and a movement to B by the administrator of A
movement_rules ==
    << [name |-> "Escalation after movement to B",
        pre |-> {Fact("user_access", "B"),
                 Fact("lateral_movement", "unknown_to_B")},
        post |-> {Fact("admin_access", "B")},
        confidence |-> Rat(7, 10), tactic |-> "Privilege Escalation"],
       [name |-> "Movement by the administrator of A",
        pre |-> {Fact("admin_access", "A")},
        post |-> {Fact("user_access", "B")},
        confidence |-> Rat(6, 10), tactic |-> "Lateral Movement"] >>

\* the rule lists run_inference is called with
RuleSets ==
    {rules, Reverse(rules), overlap_rules, twin_rules}

EXPECTED_EVIDENCE ==
    [credential_dumped |-> {"lsass_access", "proc_dump"},
     admin_access |-> {"sudo", "privilege_escalation"},
     network_access |-> {"smb_session", "rdp_session"}]

---------------------------------------------------------------------------
(* log_parser.py *)

extract_signals(log) ==
    (IF log.event_type = "login" /\ log.privilege = "user"
        THEN <<Fact("user_access", log.host)>> ELSE <<>>)
    \o (IF log.event_type = "sudo"
        THEN <<Fact("admin_access", log.host)>> ELSE <<>>)
    \o (IF log.event_type = "lsass_access"
        THEN <<Fact("credential_dumped", log.host)>> ELSE <<>>)
    \o (IF log.event_type = "smb_session"
        THEN <<Fact("network_access", NetHost(log.src, log.dst))>> ELSE <<>>)

extract_negative_signals(log) ==
    (IF log.event_type = "login_failed"
        THEN <<Fact("user_access", log.host)>> ELSE <<>>)
    \o (IF log.event_type = "logout"
        THEN <<Fact("user_access", log.host), Fact("admin_access", log.host)>>
        ELSE <<>>)
    \o (IF log.event_type = "edr_block"
        THEN <<Fact("credential_dumped", log.host)>> ELSE <<>>)
    \o (IF log.event_type = "firewall_block" /\ log.src # None /\ log.dst # None
        THEN <<Fact("network_access", NetHost(log.src, log.dst))>> ELSE <<>>)

\* the containers the importing modules hold, as one record
Store ==
    [state_info |-> state_info, state_order |-> state_order,
     state_confidence |-> state_confidence, current_states |-> current_states,
     applied_rules |-> applied_rules, G_nodes |-> G_nodes, G_edges |-> G_edges,
     observed_logs |-> observed_logs, negative_evidence |-> negative_evidence,
     hypothetical_states |-> hypothetical_states, event_counter |-> event_counter]

Empty == [x \in {} |-> x]

\* d[k] = v on a dict
Put(d, k, v) == [x \in DOMAIN d \cup {k} |-> IF x = k THEN v ELSE d[x]]

add_node(nodes, n, attrs) == Put(nodes, n, attrs)

\* for neg_state in negative: state.negative_evidence[neg_state].append(log)
RECURSIVE RecordNegative(_, _, _)
RecordNegative(ne, negative, log) ==
    IF negative = <<>> THEN ne
    ELSE LET s == Head(negative)
             old == IF s \in DOMAIN ne THEN ne[s] ELSE <<>>
         IN RecordNegative(Put(ne, s, Append(old, log)), Tail(negative), log)

\* a signal that overwrites the fact it names
AddSignal_Overwrite(st, s, log) ==
    LET ec == st.event_counter + 1 IN
    [st EXCEPT
       !.event_counter = ec,
       !.state_info = Put(@, s, [origin |-> "log",
                                 evidence |-> [logs |-> <<log>>],
                                 event_id |-> ec,
                                 time |-> log.timestamp]),
       !.state_order = IF s \in DOMAIN st.state_info THEN @ ELSE Append(@, s),
       !.state_confidence = Put(@, s, One),
       !.current_states = @ \cup {s},
       !.G_nodes = add_node(@, s, [type |-> "state", origin |-> "log",
                                   confidence |-> One])]

\* for s in signals: the body of the loop for one signal
AddSignal(st, s, log) ==
    IF s \in DOMAIN st.state_info THEN st
    ELSE LET ec == st.event_counter + 1 IN
         [st EXCEPT
            !.event_counter = ec,
            !.state_info = Put(@, s, [origin |-> "log",
                                      evidence |-> [logs |-> <<log>>],
                                      event_id |-> ec,
                                      time |-> log.timestamp]),
            !.state_order = Append(@, s),
            !.state_confidence = Put(@, s, One),
            !.current_states = @ \cup {s},
            !.G_nodes = add_node(@, s, [type |-> "state", origin |-> "log",
                                        confidence |-> One])]

RECURSIVE AddSignals(_, _, _)
AddSignals(st, signals, log) ==
    IF signals = <<>> THEN st
    ELSE AddSignals(AddSignal(st, Head(signals), log), Tail(signals), log)

\* ingestion that retracts the facts a log contradicts
IngestLog_DropContradicted(st, log) ==
    LET negative == extract_negative_signals(log)
        gone == {negative[i] : i \in 1..Len(negative)}
        keep(s) == s \notin gone
        st1 == [st EXCEPT
                  !.observed_logs = Append(@, log),
                  !.negative_evidence = RecordNegative(@, negative, log),
                  !.current_states = @ \ gone,
                  !.state_order = SelectSeq(@, keep),
                  !.state_info = [s \in DOMAIN @ \ gone |-> @[s]],
                  !.state_confidence = [s \in DOMAIN @ \ gone |-> @[s]]]
    IN AddSignals(st1, extract_signals(log), log)

\* ingestion that applies the factor 0.8 to the facts a log contradicts
IngestLog_Penalising(st, log) ==
    LET negative == extract_negative_signals(log)
        hit == {negative[i] : i \in 1..Len(negative)}
        st1 == [st EXCEPT
                  !.observed_logs = Append(@, log),
                  !.negative_evidence = RecordNegative(@, negative, log),
                  !.state_confidence =
                      [s \in DOMAIN @ |->
                          IF s \in hit THEN Mul(@[s], Rat(8, 10)) ELSE @[s]]]
    IN AddSignals(st1, extract_signals(log), log)

\* the body of "for log in read_logs(path)"
IngestLog(st, log) ==
    LET st1 == [st EXCEPT
                  !.observed_logs = Append(@, log),
                  !.negative_evidence =
                      RecordNegative(@, extract_negative_signals(log), log)]
    IN AddSignals(st1, extract_signals(log), log)

RECURSIVE ingest_logs(_, _)
ingest_logs(st, logs) ==
    IF logs = <<>> THEN st
    ELSE ingest_logs(IngestLog(st, Head(logs)), Tail(logs))

---------------------------------------------------------------------------
(* inference.py: the confidence model *)

\* 0.5 ** (a / b); the times of the model keep a a multiple of b
HalfPow(a, b) == Pow(Half, a \div b)

\* check_absence_of_evidence without the comparison of hosts
check_absence_of_evidence_AnyHost(st, state_name) ==
    LET state_type == StateType(state_name)
    IN IF state_type \notin DOMAIN EXPECTED_EVIDENCE THEN One
       ELSE IF \E i \in 1..Len(st.observed_logs) :
                  st.observed_logs[i].event_type \in EXPECTED_EVIDENCE[state_type]
            THEN One
            ELSE Half

check_absence_of_evidence(st, state_name) ==
    LET state_type == StateType(state_name)
        host == HostOf(state_name)
    IN IF state_type \notin DOMAIN EXPECTED_EVIDENCE THEN One
       ELSE IF \E i \in 1..Len(st.observed_logs) :
                  /\ st.observed_logs[i].event_type \in EXPECTED_EVIDENCE[state_type]
                  /\ st.observed_logs[i].host = host
            THEN One
            ELSE Half

\* current_time is the value now() returns inside the function
calculate_time_decay(state_time, current_time) ==
    LET age == current_time - state_time
        decay_factor == HalfPow(age, TIME_DECAY_HALF_LIFE)
    IN MaxR(decay_factor, Rat(3, 10))

apply_negative_evidence_penalty(st, state_name) ==
    IF state_name \in DOMAIN st.negative_evidence
    THEN Pow(Rat(8, 10), Len(st.negative_evidence[state_name]))
    ELSE One

\* <<is_valid, latest_precondition_time>>
check_temporal_causality(st, rule, precondition_states) ==
    IF \E p \in precondition_states : p \notin DOMAIN st.state_info
    THEN <<FALSE, 0>>
    ELSE IF precondition_states = {} THEN <<FALSE, 0>>
    ELSE <<TRUE, MaxInt({st.state_info[p].time : p \in precondition_states})>>

\* the threshold test with >= for >
calculate_time_gap_penalty_AtThreshold(rule, precondition_time, current_time) ==
    LET time_gap == current_time - precondition_time IN
    IF time_gap < 0 THEN <<Zero, "causality_violation">>
    ELSE IF "max_time_gap" \notin DOMAIN rule THEN <<One, None>>
    ELSE LET max_gap == rule.max_time_gap IN
         IF max_gap = 0 THEN <<Zero, "ZeroDivisionError">>
         ELSE IF time_gap >= max_gap
         THEN <<MaxR(Pow(Half, (time_gap - max_gap) \div max_gap), Rat(1, 10)),
                "time_gap_exceeded">>
         ELSE <<MaxR(Sub(One, Rat(3 * time_gap, 10 * max_gap)), Rat(7, 10)), None>>

\* <<penalty, violation type>>; a rule without max_time_gap has the gap
\* float('inf'): no gap exceeds it and gap / inf is 0.0.  A max_time_gap of 0
\* divides by zero.
calculate_time_gap_penalty(rule, precondition_time, current_time) ==
    LET time_gap == current_time - precondition_time IN
    IF time_gap < 0 THEN <<Zero, "causality_violation">>
    ELSE IF "max_time_gap" \notin DOMAIN rule THEN <<One, None>>
    ELSE LET max_gap == rule.max_time_gap IN
         IF max_gap = 0 THEN <<Zero, "ZeroDivisionError">>
         ELSE IF time_gap > max_gap
         THEN <<MaxR(HalfPow(time_gap - max_gap, max_gap), Rat(1, 10)),
                "time_gap_exceeded">>
         ELSE <<MaxR(Sub(One, Rat(3 * time_gap, 10 * max_gap)), Rat(7, 10)), None>>

---------------------------------------------------------------------------
(* inference.py: run_inference *)

RECURSIVE SetToSeq(_)
SetToSeq(S) ==
    IF S = {} THEN <<>>
    ELSE LET x == CHOOSE y \in S : TRUE IN <<x>> \o SetToSeq(S \ {x})

RuleNode(rule) == <<"[RULE]", rule.name>>

\* the applied check keyed by tactic
AppliedNames_ByTactic(st) ==
    {st.applied_rules[i].tactic : i \in 1..Len(st.applied_rules)}

AppliedNames(st) == {st.applied_rules[i].name : i \in 1..Len(st.applied_rules)}

\* the applied check comparing the rule with the records, never equal to it
AlreadyApplied_ByRecord(st, rule) ==
    \E i \in 1..Len(st.applied_rules) : st.applied_rules[i] = rule

\* if rule["name"] in [r["name"] for r in applied_rules]: continue
AlreadyApplied(st, rule) == rule.name \in AppliedNames(st)

\* some postcondition is in state_info with a time before the preconditions
causality_violated(st, rule, precondition_time) ==
    \E post \in rule.post :
        /\ post \in DOMAIN st.state_info
        /\ st.state_info[post].time < precondition_time

\* a skip that stores the 0.01 penalty on the early postconditions
OnCausalityViolation_Penalise(acc, rule) ==
    LET st == acc.st
        pre_time == check_temporal_causality(st, rule, rule.pre)[2]
        early == {post \in rule.post \cap DOMAIN st.state_info :
                     st.state_info[post].time < pre_time}
    IN [acc EXCEPT !.st.state_confidence =
           [s \in DOMAIN @ |-> IF s \in early THEN Rat(1, 100) ELSE @[s]]]

\* a skip that counts as a change
OnCausalityViolation_Changed(acc, rule) == [acc EXCEPT !.changed = TRUE]

\* a skip that appends the rule to applied_rules
OnCausalityViolation_Recorded(acc, rule) ==
    [acc EXCEPT !.st.applied_rules =
        Append(@, [name |-> rule.name, tactic |-> rule.tactic,
                   confidence |-> rule.confidence,
                   event_id |-> Len(acc.st.state_order) + 1])]

\* the skip taken after the rule node and the precondition edges are added
OnCausalityViolation_GraphNode(acc, rule) ==
    [acc EXCEPT
       !.st.G_nodes = add_node(@, RuleNode(rule),
           [type |-> "rule", confidence |-> rule.confidence,
            tactic |-> rule.tactic, event_id |-> Len(acc.st.state_order) + 1]),
       !.st.G_edges = @ \cup {<<pre, RuleNode(rule)>> : pre \in rule.pre}]

\* if causality_violated: continue
OnCausalityViolation(acc, rule) == acc

\* the body of "for post in rule['post']" for a post not in current_states.
\* acc = [st, changed, new, ...]: the store, the changed flag, the facts
\* created in this pass
AddPost(acc, rule, post, precondition_time, inferred_time, ec) ==
    LET st == acc.st
        parent_confidences == {st.state_confidence[p] : p \in rule.pre}
        base_confidence == MinR(rule.confidence, MinOf(parent_confidences))
        tg == calculate_time_gap_penalty(rule, precondition_time, inferred_time)
        time_gap_penalty == tg[1]
        violation_type == tg[2]
        absence_penalty == check_absence_of_evidence(st, post)
        time_decay == calculate_time_decay(inferred_time, acc.clock)
        negative_penalty == apply_negative_evidence_penalty(st, post)
        calculated_confidence ==
            Mul(Mul(Mul(Mul(base_confidence, time_gap_penalty), absence_penalty),
                    time_decay), negative_penalty)
    IN IF violation_type = "ZeroDivisionError"
       THEN [acc EXCEPT !.st.current_states = @ \cup {post}, !.raised = TRUE]
       ELSE IF violation_type = "causality_violation"
       THEN [acc EXCEPT !.st.current_states = @ \cup {post},
                        !.st.state_confidence = Put(@, post, Rat(1, 100))]
       ELSE [acc EXCEPT
               !.st.current_states = @ \cup {post},
               !.st.state_confidence = Put(@, post, calculated_confidence),
               !.st.G_nodes = add_node(@, post,
                   [type |-> "state", origin |-> "inferred",
                    confidence |-> calculated_confidence]),
               !.st.G_edges = @ \cup {<<RuleNode(rule), post>>},
               !.st.state_info = Put(@, post,
                   [origin |-> "inferred",
                    evidence |-> [derived_from_rule |-> rule.name,
                                  time_gap_penalty |-> time_gap_penalty,
                                  time_gap_violation |-> violation_type,
                                  absence_penalty |-> absence_penalty,
                                  time_decay |-> time_decay,
                                  negative_penalty |-> negative_penalty],
                    event_id |-> ec,
                    time |-> inferred_time,
                    confidence |-> calculated_confidence]),
               !.st.state_order =
                   IF post \in DOMAIN st.state_info THEN @ ELSE Append(@, post),
               !.changed = TRUE,
               !.new = @ + 1]

RECURSIVE AddPosts(_, _, _, _, _, _)
AddPosts(acc, rule, posts, precondition_time, inferred_time, ec) ==
    IF posts = <<>> \/ acc.raised THEN acc
    ELSE AddPosts(AddPost(acc, rule, Head(posts), precondition_time,
                          inferred_time, ec),
                  rule, Tail(posts), precondition_time, inferred_time, ec)

\* the firing that leaves no record in the applied-rule list
RecordApplied_Skipped(st, rule, ec) == st

\* applied_rules.append({...})
RecordApplied(st, rule, ec) ==
    [st EXCEPT !.applied_rules =
        Append(@, [name |-> rule.name, tactic |-> rule.tactic,
                   confidence |-> rule.confidence, event_id |-> ec])]

\* the firing of a rule with every postcondition written, current fact or not
FireRule_Overwriting(acc, rule, precondition_time) ==
    LET st == acc.st
        inferred_time == MaxInt({precondition_time, acc.clock})
        ec == IF st.state_order # <<>>
              THEN st.state_info[st.state_order[Len(st.state_order)]].event_id + 1
              ELSE 1
        a1 == [acc EXCEPT
                 !.st.G_nodes = add_node(@, RuleNode(rule),
                     [type |-> "rule", confidence |-> rule.confidence,
                      tactic |-> rule.tactic, event_id |-> ec]),
                 !.st.G_edges = @ \cup {<<pre, RuleNode(rule)>> : pre \in rule.pre}]
        posts == SetToSeq(rule.post)
        a2 == AddPosts(a1, rule, posts, precondition_time, inferred_time, ec)
    IN IF a2.raised THEN a2
       ELSE [a2 EXCEPT !.st = RecordApplied(@, rule, ec)]

\* a rule that passed the checks: graph node, precondition edges, the
\* postconditions, the applied-rule record
FireRule(acc, rule, precondition_time) ==
    LET st == acc.st
        inferred_time == MaxInt({precondition_time, acc.clock})
        ec == IF st.state_order # <<>>
              THEN st.state_info[st.state_order[Len(st.state_order)]].event_id + 1
              ELSE 1
        a1 == [acc EXCEPT
                 !.st.G_nodes = add_node(@, RuleNode(rule),
                     [type |-> "rule", confidence |-> rule.confidence,
                      tactic |-> rule.tactic, event_id |-> ec]),
                 !.st.G_edges = @ \cup {<<pre, RuleNode(rule)>> : pre \in rule.pre}]
        posts == SetToSeq({p \in rule.post : p \notin st.current_states})
        a2 == AddPosts(a1, rule, posts, precondition_time, inferred_time, ec)
    IN IF a2.raised THEN a2
       ELSE [a2 EXCEPT !.st = RecordApplied(@, rule, ec)]

\* the body of "for rule in rules"
EvalRule(acc, rule) ==
    LET a1 == [acc EXCEPT !.evals = @ + 1]
        tc == check_temporal_causality(a1.st, rule, rule.pre)
    IN IF AlreadyApplied(a1.st, rule) THEN a1
       ELSE IF ~(rule.pre \subseteq a1.st.current_states) THEN a1
       ELSE IF ~tc[1] THEN a1
       ELSE IF causality_violated(a1.st, rule, tc[2])
            THEN OnCausalityViolation(a1, rule)
       ELSE FireRule(a1, rule, tc[2])

RECURSIVE ForRules(_, _, _)
ForRules(acc, rs, i) ==
    IF i > Len(rs) \/ acc.raised THEN acc
    ELSE ForRules(EvalRule(acc, rs[i]), rs, i + 1)

\* "if changed" for "while changed": one pass
WhileChanged_OnePass(acc, rs, fuel) ==
    LET p == ForRules([acc EXCEPT !.changed = FALSE, !.new = 0], rs, 1)
    IN [p EXCEPT !.passes = @ + 1, !.added = Append(@, p.new)]

\* while changed: one pass per unfolding; fuel bounds the passes followed
RECURSIVE WhileChanged(_, _, _)
WhileChanged(acc, rs, fuel) ==
    IF fuel = 0 THEN [acc EXCEPT !.completed = FALSE]
    ELSE LET p == ForRules([acc EXCEPT !.changed = FALSE, !.new = 0], rs, 1)
             q == [p EXCEPT !.passes = @ + 1, !.added = Append(@, p.new)]
         IN IF q.changed /\ ~q.raised
            THEN WhileChanged(q, rs, fuel - 1)
            ELSE q

\* run_inference(rules) on store st; every now() of the call reads clock
run_inference(st, rs, clock) ==
    WhileChanged([st |-> st, changed |-> TRUE, new |-> 0, evals |-> 0,
                  clock |-> clock, raised |-> FALSE, passes |-> 0,
                  added |-> <<>>, completed |-> TRUE],
                 rs, MaxPasses)

---------------------------------------------------------------------------
(* inference.py: infer_missing_steps *)

\* the scan with the lateral-movement gap closed by either piece of evidence
HypothesesFor_Either(st, state_name) ==
    LET info == st.state_info[state_name]
        state_type == StateType(state_name)
        host == HostOf(state_name)
        user_state == Fact("user_access", host)
        has_network_access ==
            \E e \in st.current_states : e = Fact("network_access", NetHost("A", host))
        has_credentials ==
            \E e \in st.current_states : StateType(e) = "credential_dumped"
    IN IF info.origin # "log" THEN <<>>
       ELSE (IF state_type = "admin_access" /\ user_state \notin st.current_states
             THEN <<[state |-> user_state,
                     reason |-> <<"Required for observed", state_name>>,
                     confidence |-> Rat(3, 10),
                     mechanism |-> "unknown"]>>
             ELSE <<>>)
            \o
            (IF state_type = "user_access" /\ host # "A"
                /\ ~(has_network_access \/ has_credentials)
             THEN <<[state |-> Fact("lateral_movement", "unknown_to_" \o host),
                     reason |-> <<"Necessary to explain", state_name>>,
                     confidence |-> Rat(1, 4),
                     mechanism |-> "unknown (no evidence found)"]>>
             ELSE <<>>)

\* the hypotheses the scan appends for one key of state_info
HypothesesFor(st, state_name) ==
    LET info == st.state_info[state_name]
        state_type == StateType(state_name)
        host == HostOf(state_name)
        user_state == Fact("user_access", host)
        has_network_access ==
            \E e \in st.current_states : e = Fact("network_access", NetHost("A", host))
        has_credentials ==
            \E e \in st.current_states : StateType(e) = "credential_dumped"
    IN IF info.origin # "log" THEN <<>>
       ELSE (IF state_type = "admin_access" /\ user_state \notin st.current_states
             THEN <<[state |-> user_state,
                     reason |-> <<"Required for observed", state_name>>,
                     confidence |-> Rat(3, 10),
                     mechanism |-> "unknown"]>>
             ELSE <<>>)
            \o
            (IF state_type = "user_access" /\ host # "A"
                /\ ~(has_network_access /\ has_credentials)
             THEN <<[state |-> Fact("lateral_movement", "unknown_to_" \o host),
                     reason |-> <<"Necessary to explain", state_name>>,
                     confidence |-> Rat(1, 4),
                     mechanism |-> "unknown (no evidence found)"]>>
             ELSE <<>>)

RECURSIVE CollectHypotheses(_, _)
CollectHypotheses(st, keys) ==
    IF keys = <<>> THEN <<>>
    ELSE HypothesesFor(st, Head(keys)) \o CollectHypotheses(st, Tail(keys))

\* a hypothesis stored with the origin of an inferred fact
ApplyHypothesis_Inferred(st, hyp, clock) ==
    LET state_name == hyp.state IN
    [st EXCEPT
       !.current_states = @ \cup {state_name},
       !.state_confidence = Put(@, state_name, hyp.confidence),
       !.hypothetical_states = Put(@, state_name, hyp),
       !.state_info = Put(@, state_name,
           [origin |-> "inferred",
            evidence |-> [derived_from_rule |-> hyp.mechanism],
            event_id |-> Cardinality(DOMAIN st.state_info) + 1,
            time |-> clock,
            confidence |-> hyp.confidence]),
       !.state_order =
           IF state_name \in DOMAIN st.state_info THEN @ ELSE Append(@, state_name),
       !.G_nodes = add_node(@, state_name,
           [type |-> "state", origin |-> "inferred",
            confidence |-> hyp.confidence])]

\* the body of "for hyp in hypothetical_inferences"
ApplyHypothesis(st, hyp, clock) ==
    LET state_name == hyp.state IN
    [st EXCEPT
       !.current_states = @ \cup {state_name},
       !.state_confidence = Put(@, state_name, hyp.confidence),
       !.hypothetical_states = Put(@, state_name, hyp),
       !.state_info = Put(@, state_name,
           [origin |-> "hypothetical",
            evidence |-> [reason |-> hyp.reason, mechanism |-> hyp.mechanism],
            event_id |-> Cardinality(DOMAIN st.state_info) + 1,
            time |-> clock,
            confidence |-> hyp.confidence]),
       !.state_order =
           IF state_name \in DOMAIN st.state_info THEN @ ELSE Append(@, state_name),
       !.G_nodes = add_node(@, state_name,
           [type |-> "state", origin |-> "hypothetical",
            confidence |-> hyp.confidence])]

RECURSIVE ApplyHypotheses(_, _, _)
ApplyHypotheses(st, hyps, clock) ==
    IF hyps = <<>> THEN st
    ELSE ApplyHypotheses(ApplyHypothesis(st, Head(hyps), clock), Tail(hyps), clock)

\* [st, ret]: the store after the call and the value returned
infer_missing_steps(st, clock) ==
    LET hypothetical_inferences == CollectHypotheses(st, st.state_order)
    IN [st |-> ApplyHypotheses(st, hypothetical_inferences, clock),
        ret |-> Len(hypothetical_inferences)]

---------------------------------------------------------------------------
(* narratives.py *)

\* sum(d.values()) over the keys S of d
RECURSIVE SumOver(_, _)
SumOver(d, S) ==
    IF S = {} THEN Zero
    ELSE LET k == CHOOSE x \in S : TRUE IN Add(d[k], SumOver(d, S \ {k}))

\* sum(1 for s in states if state_info.get(s, {}).get('origin') == origin)
CountOrigin(st, states, origin) ==
    Cardinality({s \in states \cap DOMAIN st.state_info :
                    st.state_info[s].origin = origin})

\* calculate_score with the 0.8 penalty taken per inferred fact
calculate_score_PenaliseInferred(st, rules_applied, states, confidences) ==
    IF states = {} THEN [score |-> Zero, raised |-> FALSE]
    ELSE IF DOMAIN confidences = {} THEN [score |-> Zero, raised |-> TRUE]
    ELSE
    LET total == SumOver(confidences, DOMAIN confidences)
        avg_confidence ==
            Rat(total[1], total[2] * Cardinality(DOMAIN confidences))
        observed == CountOrigin(st, states, "log")
        hypothetical == CountOrigin(st, states, "inferred")
        complexity_penalty == Rat(10, 10 + Len(rules_applied))
        hypothetical_penalty == Pow(Rat(8, 10), hypothetical)
        in_store == CountOrigin(st, DOMAIN st.state_info, "log")
        coverage == Rat(observed, MaxInt({in_store, 1}))
    IN [score |-> Add(Add(Add(Mul(avg_confidence, Rat(4, 10)),
                              Mul(coverage, Rat(3, 10))),
                          Mul(complexity_penalty, Rat(2, 10))),
                      Mul(hypothetical_penalty, Rat(1, 10))),
        raised |-> FALSE]

\* AttackNarrative.calculate_score: [score, raised]; the mean over an empty
\* confidences dict of a narrative with states divides by zero
calculate_score(st, rules_applied, states, confidences) ==
    IF states = {} THEN [score |-> Zero, raised |-> FALSE]
    ELSE IF DOMAIN confidences = {} THEN [score |-> Zero, raised |-> TRUE]
    ELSE
    LET total == SumOver(confidences, DOMAIN confidences)
        avg_confidence ==
            Rat(total[1], total[2] * Cardinality(DOMAIN confidences))
        observed == CountOrigin(st, states, "log")
        hypothetical == CountOrigin(st, states, "hypothetical")
        complexity_penalty == Rat(10, 10 + Len(rules_applied))
        hypothetical_penalty == Pow(Rat(8, 10), hypothetical)
        in_store == CountOrigin(st, DOMAIN st.state_info, "log")
        coverage == Rat(observed, MaxInt({in_store, 1}))
    IN [score |-> Add(Add(Add(Mul(avg_confidence, Rat(4, 10)),
                              Mul(coverage, Rat(3, 10))),
                          Mul(complexity_penalty, Rat(2, 10))),
                      Mul(hypothetical_penalty, Rat(1, 10))),
        raised |-> FALSE]

\* AttackNarrative(...) with the explanation the generator sets; shared says
\* that rules_applied is the list object applied_rules itself
AttackNarrative(st, narrative_id, rules_applied, shared, states, confidences, explanation) ==
    LET sc == calculate_score(st, rules_applied, states, confidences) IN
    [id |-> narrative_id, rules_applied |-> rules_applied, shared |-> shared,
     states |-> states, confidences |-> confidences, score |-> sc.score,
     raised |-> sc.raised, explanation |-> explanation]

\* {s: c for s, c in d.items() if s in S}
Restrict(d, S) == [s \in S \cap DOMAIN d |-> d[s]]

HighConfidence(r) == Less(Rat(1, 2), r.confidence)

narrative_1(st) ==
    AttackNarrative(st, 1, st.applied_rules, FALSE, DOMAIN st.state_info,
                    st.state_confidence,
                    "Full inference chain (all rules applied)")

narrative_2(st) ==
    LET non_hypothetical_states ==
            {s \in DOMAIN st.state_info :
                st.state_info[s].origin # "hypothetical"}
    IN AttackNarrative(st, 2, st.applied_rules, FALSE, non_hypothetical_states,
                       Restrict(st.state_confidence, non_hypothetical_states),
                       "Conservative (no hypothetical steps)")

\* narrative 3 with the threshold 0.2 on the facts
narrative_3_LowThreshold(st) ==
    LET high_conf_states ==
            {s \in DOMAIN st.state_confidence :
                Less(Rat(2, 10), st.state_confidence[s])}
    IN AttackNarrative(st, 3, SelectSeq(st.applied_rules, HighConfidence), FALSE,
                       high_conf_states,
                       Restrict(st.state_confidence, high_conf_states),
                       "High-confidence only (conf > 0.5)")

narrative_3(st) ==
    LET high_conf_states ==
            {s \in DOMAIN st.state_confidence :
                Less(Rat(1, 2), st.state_confidence[s])}
    IN AttackNarrative(st, 3, SelectSeq(st.applied_rules, HighConfidence), FALSE,
                       high_conf_states,
                       Restrict(st.state_confidence, high_conf_states),
                       "High-confidence only (conf > 0.5)")

\* state_confidence.get(s, 0)
ConfidenceOr0(st, s) ==
    IF s \in DOMAIN st.state_confidence THEN st.state_confidence[s] ELSE Zero

\* narrative 4 with the threshold of narrative 3
narrative_4_HalfThreshold(st) ==
    LET direct_states ==
            {s \in DOMAIN st.state_info :
                \/ st.state_info[s].origin = "log"
                \/ /\ st.state_info[s].origin = "inferred"
                   /\ st.state_info[s].evidence.derived_from_rule # ""
                   /\ Less(Rat(1, 2), ConfidenceOr0(st, s))}
        two == Len(st.applied_rules) >= 2
    IN AttackNarrative(st, 4,
                       IF two THEN SubSeq(st.applied_rules, 1, 2)
                       ELSE st.applied_rules,
                       ~two, direct_states,
                       Restrict(st.state_confidence, direct_states),
                       "Observed + direct inferences only")

narrative_4(st) ==
    LET direct_states ==
            {s \in DOMAIN st.state_info :
                \/ st.state_info[s].origin = "log"
                \/ /\ st.state_info[s].origin = "inferred"
                   /\ st.state_info[s].evidence.derived_from_rule # ""
                   /\ Less(Rat(3, 10), ConfidenceOr0(st, s))}
        two == Len(st.applied_rules) >= 2
    IN AttackNarrative(st, 4,
                       IF two THEN SubSeq(st.applied_rules, 1, 2)
                       ELSE st.applied_rules,
                       ~two, direct_states,
                       Restrict(st.state_confidence, direct_states),
                       "Observed + direct inferences only")

narrative_5(st) ==
    LET observed_only ==
            {s \in DOMAIN st.state_info : st.state_info[s].origin = "log"}
    IN AttackNarrative(st, 5, <<>>, FALSE, observed_only,
                       Restrict(st.state_confidence, observed_only),
                       "Minimal (observed evidence only)")

\* __lt__ with >= for >
NarrativeLt_OrEqual(self, other) == Leq(other.score, self.score)

\* AttackNarrative.__lt__
NarrativeLt(self, other) == Less(other.score, self.score)

\* the least index of sorted at which x is less than the element, or the
\* index after the last
InsertAt(sorted, x) ==
    LET before == {i \in 1..Len(sorted) : NarrativeLt(x, sorted[i])}
    IN IF before = {} THEN Len(sorted) + 1
       ELSE CHOOSE i \in before : \A j \in before : i <= j

\* sorted(): stable, by __lt__ alone; x goes before the first element it is
\* less than
InsertSorted(sorted, x) ==
    CHOOSE r \in {SubSeq(sd, 1, at - 1) \o <<x>> \o SubSeq(sd, at, Len(sd)) :
                     sd \in {sorted}, at \in {InsertAt(sorted, x)}} : TRUE

RECURSIVE Sorted(_)
Sorted(seq) ==
    IF seq = <<>> THEN <<>>
    ELSE CHOOSE r \in {InsertSorted(front, seq[Len(seq)]) :
                          front \in {Sorted(SubSeq(seq, 1, Len(seq) - 1))}} : TRUE

\* seq[:k]
Slice(seq, k) ==
    IF k >= 0 THEN SubSeq(seq, 1, IF k < Len(seq) THEN k ELSE Len(seq))
    ELSE SubSeq(seq, 1, IF Len(seq) + k > 0 THEN Len(seq) + k ELSE 0)

\* return sorted(narratives)[:max_variants], unless a constructor raised
ReturnNarratives(st, all, max_variants) ==
    LET raised == \E i \in 1..Len(all) : all[i].raised
    IN [st |-> st,
        ret |-> IF raised THEN <<>> ELSE Slice(Sorted(all), max_variants),
        raised |-> raised]

\* a generator whose narrative 4 cuts applied_rules itself down to its first
\* two records
generate_narrative_variants_Truncating(st, max_variants) ==
    CHOOSE r \in {ReturnNarratives(
                     [st EXCEPT !.applied_rules = Slice(st.applied_rules, 2)],
                     all, max_variants) :
                     all \in {<<narrative_1(st), narrative_2(st), narrative_3(st),
                                narrative_4(st), narrative_5(st)>>}} : TRUE

\* [st, ret, raised]: the store after the call, the list returned
generate_narrative_variants(st, max_variants) ==
    CHOOSE r \in {ReturnNarratives(st, all, max_variants) :
                     all \in {<<narrative_1(st), narrative_2(st), narrative_3(st),
                                narrative_4(st), narrative_5(st)>>}} : TRUE

\* the narratives held by the caller after applied_rules became applied: a
\* narrative whose rules_applied is that list object shows its contents
Held(ns, applied) ==
    [i \in 1..Len(ns) |->
        IF ns[i].shared THEN [ns[i] EXCEPT !.rules_applied = applied]
        ELSE ns[i]]

---------------------------------------------------------------------------
(* The state machine *)

NoCall == [op |-> "start", rules |-> <<>>, again |-> FALSE, ret |-> 0,
           passes |-> 0, added |-> <<>>, completed |-> TRUE,
           max_variants |-> 0, raised |-> FALSE, narrative |-> <<>>]

\* module state as the imports leave it
InitStore ==
    /\ state_info = Empty
    /\ state_order = <<>>
    /\ state_confidence = Empty
    /\ current_states = {}
    /\ applied_rules = <<>>
    /\ G_nodes = Empty
    /\ G_edges = {}
    /\ observed_logs = <<>>
    /\ negative_evidence = Empty
    /\ hypothetical_states = Empty
    /\ event_counter = 0
    /\ rebound = FALSE
    /\ now = Now0
    /\ calls = 0
    /\ narratives = <<>>

Init ==
    /\ InitStore
    /\ last = NoCall

\* the store of the next state is st
StoreBecomes(st) ==
    /\ state_info' = st.state_info
    /\ state_order' = st.state_order
    /\ state_confidence' = st.state_confidence
    /\ current_states' = st.current_states
    /\ applied_rules' = st.applied_rules
    /\ G_nodes' = st.G_nodes
    /\ G_edges' = st.G_edges
    /\ observed_logs' = st.observed_logs
    /\ negative_evidence' = st.negative_evidence
    /\ hypothetical_states' = st.hypothetical_states
    /\ event_counter' = st.event_counter

\* the store of the next state is st, seen also through the narratives held
Becomes(st) ==
    /\ StoreBecomes(st)
    /\ narratives' = Held(narratives, st.applied_rules)

\* one more operation is called
Called ==
    /\ calls < MaxCalls
    /\ calls' = calls + 1

Ingest(logs) ==
    /\ Called
    /\ \E st \in {ingest_logs(Store, logs)} : Becomes(st)
    /\ last' = [NoCall EXCEPT !.op = "ingest_logs"]
    /\ UNCHANGED <<rebound, now>>

\* reset_state rebinds the names of module state; the containers that
\* log_parser, inference, narratives and output imported by name are the
\* old objects and keep their contents
ResetState ==
    /\ Called
    /\ rebound' = TRUE
    /\ observed_logs' = <<>>
    /\ negative_evidence' = Empty
    /\ hypothetical_states' = Empty
    /\ last' = [NoCall EXCEPT !.op = "reset_state"]
    /\ UNCHANGED <<state_info, state_order, state_confidence, current_states,
                   applied_rules, G_nodes, G_edges, event_counter, now,
                   narratives>>

Tick ==
    /\ now < Now0 + MaxTicks * TIME_DECAY_HALF_LIFE
    /\ now' = now + TIME_DECAY_HALF_LIFE
    /\ last' = [last EXCEPT !.op = "tick"]
    /\ UNCHANGED <<state_info, state_order, state_confidence, current_states,
                   applied_rules, G_nodes, G_edges, observed_logs,
                   negative_evidence, hypothetical_states, event_counter,
                   rebound, calls, narratives>>

RunInference(rs) ==
    /\ Called
    /\ \E r \in {run_inference(Store, rs, now)} :
        /\ Becomes(r.st)
        /\ last' = [op |-> "run_inference", rules |-> rs,
                    again |-> (last.rules = rs), ret |-> 0,
                    passes |-> r.passes, added |-> r.added,
                    completed |-> r.completed]
    /\ UNCHANGED <<rebound, now>>

InferMissingSteps ==
    /\ Called
    /\ \E r \in {infer_missing_steps(Store, now)} :
        /\ Becomes(r.st)
        /\ last' = [NoCall EXCEPT !.op = "infer_missing_steps", !.ret = r.ret]
    /\ UNCHANGED <<rebound, now>>

\* narratives = generate_narrative_variants(rules, max_variants)
GenerateNarrativeVariants(max_variants) ==
    /\ Called
    /\ \E r \in {generate_narrative_variants(Store, max_variants)} :
        /\ StoreBecomes(r.st)
        /\ narratives' = Held(r.ret, r.st.applied_rules)
        /\ last' = [NoCall EXCEPT !.op = "generate_narrative_variants",
                                  !.max_variants = max_variants,
                                  !.raised = r.raised]
    /\ UNCHANGED <<rebound, now>>

Next ==
    \/ \E logs \in LogBatches : Ingest(logs)
    \/ \E rs \in RuleSets : RunInference(rs)
    \/ InferMissingSteps
    \/ ResetState
    \/ Tick

Spec == Init /\ [][Next]_vars

\* the same operations, at most MaxStoreCalls of them: the stores over which
\* the properties that compare several runs are evaluated
Within == calls' <= MaxStoreCalls

NextStores ==
    \/ \E logs \in LogBatches : Ingest(logs) /\ Within
    \/ \E rs \in RuleSets : RunInference(rs) /\ Within
    \/ InferMissingSteps /\ Within
    \/ ResetState /\ Within
    \/ Tick

SpecStores == Init /\ [][NextStores]_vars

\* the operations with the narrative generator, which reads the store the
\* others build, at most MaxNarrativeCalls of them
WithinNarratives == calls < MaxNarrativeCalls

NextNarratives ==
    \/ \E logs \in LogBatches : WithinNarratives /\ Ingest(logs)
    \/ \E rs \in RuleSets \cup {weak_rules} :
           WithinNarratives /\ RunInference(rs)
    \/ WithinNarratives /\ InferMissingSteps
    \/ WithinNarratives /\ ResetState
    \/ \E k \in 0..MaxVariants :
           WithinNarratives /\ GenerateNarrativeVariants(k)
    \/ Tick

SpecNarratives == Init /\ [][NextNarratives]_vars

\* the operations on stores that also ingest tool_traces, at most
\* MaxEvidenceCalls of them
WithinEvidence == calls < MaxEvidenceCalls

NextEvidence ==
    \/ \E logs \in LogBatches \cup {tool_traces} :
           WithinEvidence /\ Ingest(logs)
    \/ \E rs \in RuleSets : WithinEvidence /\ RunInference(rs)
    \/ WithinEvidence /\ InferMissingSteps
    \/ WithinEvidence /\ ResetState
    \/ Tick

SpecEvidence == Init /\ [][NextEvidence]_vars

\* ingest_logs, run_inference and infer_missing_steps alone, with sudo_B
\* among the logs and movement_rules among the rule lists, at most
\* MaxOpsCalls calls
WithinOps == calls < MaxOpsCalls

NextOps ==
    \/ \E logs \in LogBatches \cup {sudo_B} : WithinOps /\ Ingest(logs)
    \/ \E rs \in RuleSets \cup {movement_rules} :
           WithinOps /\ RunInference(rs)
    \/ WithinOps /\ InferMissingSteps
    \/ Tick

SpecOps == Init /\ [][NextOps]_vars

\* n = AttackNarrative(0, rules_applied, states, confidences) built by a
\* caller over facts of the store, with their confidences as the generator
\* passes them; n is kept in last until the next operation
ConstructNarrative(rules_applied, states) ==
    /\ last.op # "AttackNarrative"
    /\ last' = [NoCall EXCEPT
                   !.op = "AttackNarrative",
                   !.narrative =
                       AttackNarrative(Store, 0, rules_applied, FALSE, states,
                                       Restrict(state_confidence, states), "")]
    /\ UNCHANGED <<state_info, state_order, state_confidence, current_states,
                   applied_rules, G_nodes, G_edges, observed_logs,
                   negative_evidence, hypothetical_states, event_counter,
                   rebound, now, calls, narratives>>

\* the operations that build a store, at most MaxStoreCalls of them, and
\* then the constructor called on the store
NextScore ==
    \/ last.op # "AttackNarrative" /\ NextStores
    \/ \E k \in 0..Len(rules), states \in SUBSET DOMAIN state_info :
           ConstructNarrative(SubSeq(rules, 1, k), states)

SpecScore == Init /\ [][NextScore]_vars

---------------------------------------------------------------------------
(* calculate_time_gap_penalty on its own: the arguments are drawn at the    *)
(* start, one step applies the function                                     *)

\* the shipped lateral-movement rule declaring max_time_gap = T[1] (<<>>: no
\* such key)
GapRule(T) ==
    IF T = <<>> THEN rules[3]
    ELSE [name |-> rules[3].name, pre |-> rules[3].pre, post |-> rules[3].post,
          confidence |-> rules[3].confidence, tactic |-> rules[3].tactic,
          max_time_gap |-> T[1]]

Thresholds == {<<>>, <<0>>, <<300>>, <<900>>, <<TIME_DECAY_HALF_LIFE>>}
GapTimes == {300 * i : i \in 0..MaxGapSteps}

\* 0.5 ** (excess / max_gap) is computed for whole quotients
WholeQuotient(T, gap) ==
    IF T = <<>> THEN TRUE
    ELSE IF T[1] = 0 \/ gap <= T[1] THEN TRUE
    ELSE (gap - T[1]) % T[1] = 0

InitGap ==
    /\ InitStore
    /\ \E T \in Thresholds, pre \in {0, TIME_DECAY_HALF_LIFE}, cur \in GapTimes :
           /\ WholeQuotient(T, cur - pre)
           /\ last = [op |-> "arguments", rule |-> GapRule(T),
                      precondition_time |-> pre, current_time |-> cur]

TimeGapPenalty ==
    /\ last.op = "arguments"
    /\ \E r \in {calculate_time_gap_penalty(last.rule, last.precondition_time,
                                             last.current_time)} :
           last' = [op |-> "calculate_time_gap_penalty", rule |-> last.rule,
                    precondition_time |-> last.precondition_time,
                    current_time |-> last.current_time,
                    raised |-> (r[2] = "ZeroDivisionError"),
                    penalty |-> r[1], violation_type |-> r[2]]
    /\ UNCHANGED <<state_info, state_order, state_confidence, current_states,
                   applied_rules, G_nodes, G_edges, observed_logs,
                   negative_evidence, hypothetical_states, event_counter,
                   rebound, now, calls, narratives>>

SpecGap == InitGap /\ [][TimeGapPenalty]_vars

---------------------------------------------------------------------------
(* Properties *)

uA == Fact("user_access", "A")
aA == Fact("admin_access", "A")
cA == Fact("credential_dumped", "A")
nAB == Fact("network_access", "A_to_B")
uB == Fact("user_access", "B")
aB == Fact("admin_access", "B")

\* this step is a call of operation op
CallOf(op) == calls' # calls /\ last'.op = op

Facts == DOMAIN state_info
FactsOf(origin) == {s \in Facts : state_info[s].origin = origin}
Occurrences(seq, x) == Cardinality({i \in 1..Len(seq) : seq[i] = x})

\* the rules of rs that the store blocks: preconditions all current facts, a
\* postcondition recorded before the latest precondition
Blocked(rs) ==
    {i \in 1..Len(rs) :
        /\ rs[i].pre # {}
        /\ rs[i].pre \subseteq current_states
        /\ causality_violated(Store, rs[i],
               check_temporal_causality(Store, rs[i], rs[i].pre)[2])}

\* C1: a second run_inference with the same rule list, no other operation in
\* between, adds no fact and no applied-rule record and changes no confidence
C1_FixpointIdempotence ==
    [][(CallOf("run_inference") /\ last'.again) =>
          /\ state_info' = state_info
          /\ state_order' = state_order
          /\ current_states' = current_states
          /\ state_confidence' = state_confidence
          /\ applied_rules' = applied_rules]_vars

\* a second call was made on a store the first call had added facts to
C1_Witness ==
    /\ last.op = "run_inference"
    /\ last.again
    /\ last.rules = Reverse(rules)
    /\ FactsOf("inferred") # {}
    /\ Len(applied_rules) >= 2

\* C2 (as claimed): after reset_state the store the operations work on is empty
C2_ResetEmptiesStore ==
    last.op = "reset_state" =>
        /\ Facts = {}
        /\ current_states = {}
        /\ DOMAIN state_confidence = {}
        /\ applied_rules = <<>>
        /\ DOMAIN G_nodes = {}
        /\ observed_logs = <<>>
        /\ DOMAIN negative_evidence = {}
        /\ event_counter = 0

\* the postconditions of rule that are recorded before its latest precondition
EarlyPosts(rule) ==
    IF rule.pre = {} \/ ~(rule.pre \subseteq current_states) THEN {}
    ELSE {post \in rule.post \cap Facts :
            state_info[post].time <
                check_temporal_causality(Store, rule, rule.pre)[2]}

\* C3 (as claimed): after run_inference a postcondition recorded before the
\* rule's latest precondition has one entry and confidence at most 0.01
C3_CausalityPenalty ==
    [][CallOf("run_inference") =>
          \A i \in 1..Len(last'.rules) : \A post \in EarlyPosts(last'.rules[i]) :
              /\ Occurrences(state_order', post) = 1
              /\ Leq(state_confidence'[post], Rat(1, 100))]_vars

\* C3 (amended): such a postcondition has one entry, and run_inference leaves
\* its record and its confidence as they were
C3_CausalitySkip ==
    [][CallOf("run_inference") =>
          \A i \in 1..Len(last'.rules) : \A post \in EarlyPosts(last'.rules[i]) :
              /\ Occurrences(state_order', post) = 1
              /\ post \in current_states'
              /\ state_info'[post] = state_info[post]
              /\ state_confidence'[post] = state_confidence[post]]_vars

\* run_inference has met preconditions at t=100 with the postcondition at t=50
C3_Witness ==
    /\ last.op = "run_inference"
    /\ last.rules = rules
    /\ uA \in Facts /\ state_info[uA].time = 100
    /\ aA \in EarlyPosts(rules[1]) /\ state_info[aA].time = 50
    /\ state_confidence[aA] = One

\* C4 (as claimed): every stored confidence lies in [0, 1]
C4_ConfidenceBound ==
    \A s \in DOMAIN state_confidence :
        Leq(Zero, state_confidence[s]) /\ Leq(state_confidence[s], One)

\* C5: run_inference ends, and every pass but the last added a fact
C5_Termination ==
    last.op = "run_inference" =>
        /\ last.completed
        /\ last.passes >= 1
        /\ last.passes = Len(last.added)
        /\ \A i \in 1..(last.passes - 1) : last.added[i] >= 1
        /\ last.added[last.passes] = 0

\* a call of three passes that skipped a causality-blocked rule on each
C5_Witness ==
    /\ last.op = "run_inference"
    /\ last.passes >= 3
    /\ \E i \in Blocked(last.rules) : ~AlreadyApplied(Store, last.rules[i])

NoTwoRecords(applied) ==
    \A i, j \in 1..Len(applied) : applied[i].name = applied[j].name => i = j

\* C6: at most one applied-rule record per rule name; the facts that name a
\* rule as their source all come from its one firing; a rule whose name is
\* recorded before a call creates no fact, no graph edge and no record in it
C6_AppliedOnce ==
    [][/\ NoTwoRecords(applied_rules')
       /\ \A s \in FactsOf("inferred")' :
              \E i \in 1..Len(applied_rules') :
                  /\ applied_rules'[i].name = state_info'[s].evidence.derived_from_rule
                  /\ applied_rules'[i].event_id = state_info'[s].event_id
       /\ CallOf("run_inference") =>
              \A n \in AppliedNames(Store) :
                  /\ \A s \in Facts' \ Facts :
                         state_info'[s].evidence.derived_from_rule # n
                  /\ \A e \in G_edges' \ G_edges :
                         e[1] # <<"[RULE]", n>> /\ e[2] # <<"[RULE]", n>>
                  /\ Occurrences([i \in 1..Len(applied_rules') |->
                                     applied_rules'[i].name], n) = 1]_vars

\* the second rule named "Twin" was met after the first was recorded: it left
\* no record, and a later call with the shipped rules added records
C6_Witness ==
    /\ last.op = "run_inference"
    /\ last.rules = rules
    /\ "Twin" \in AppliedNames(Store)
    /\ aA \in FactsOf("inferred")
    /\ state_info[aA].evidence.derived_from_rule = "Twin"
    /\ cA \in FactsOf("inferred")
    /\ state_info[cA].evidence.derived_from_rule = "Credential Dumping on A"

Orderings(rs) ==
    {[i \in 1..Len(rs) |-> rs[p[i]]] : p \in Permutations(1..Len(rs))}

\* the fact identifiers run_inference(rs) ends with on the store as it is
FactsAfter(rs) == run_inference(Store, rs, now).st.current_states

DistinctNames(rs) == \A i, j \in 1..Len(rs) : rs[i].name = rs[j].name => i = j
SinglePost(rs) == \A i \in 1..Len(rs) : Cardinality(rs[i].post) = 1

\* the rule lists whose orderings are compared
OrderedSets == {rules, overlap_rules, twin_rules}

\* the calls of run_inference with the orderings of rs on the store as it is
Runs(rs) == {run_inference(Store, p, now) : p \in Orderings(rs)}

\* the calls in R end with the same fact identifiers
SameFacts(R) == Cardinality({r.st.current_states : r \in R}) = 1

C8_NoFactDeleted ==
    [][last'.op # "reset_state" =>
          /\ Facts \subseteq Facts'
          /\ current_states \subseteq current_states'
          /\ DOMAIN state_confidence \subseteq DOMAIN state_confidence']_vars

\* facts with negative evidence against them, one of them the early
\* postcondition of a blocked rule, are in the store after run_inference
C8_Witness ==
    /\ last.op = "run_inference"
    /\ last.rules = rules
    /\ {uA, aA} \subseteq current_states \cap DOMAIN negative_evidence
    /\ aA \in EarlyPosts(rules[1])

\* the store of a fresh process that ingested scenario_1
FreshScenario1 ==
    /\ observed_logs = scenario_1
    /\ state_order = <<uA, nAB, aA, cA>>
    /\ FactsOf("log") = Facts
    /\ applied_rules = <<>>

\* C9 (as claimed): run_inference with the shipped rules on scenario_1 ends
\* without user_access:B
C9_NoLateralMovement ==
    [][(FreshScenario1 /\ CallOf("run_inference") /\ last'.rules = rules) =>
          uB \notin current_states' /\ uB \notin Facts']_vars

\* C9 (amended): it ends with user_access:B, inferred by Lateral Movement
\* A_to_B from the observed credential_dumped:A and network_access:A_to_B
C9_LateralMovementInferred ==
    [][(FreshScenario1 /\ CallOf("run_inference") /\ last'.rules = rules) =>
          /\ uB \in current_states'
          /\ uB \in FactsOf("inferred")'
          /\ state_info'[uB].evidence.derived_from_rule = "Lateral Movement A_to_B"
          /\ aB \in FactsOf("inferred")']_vars

C9_Witness ==
    /\ last.op = "run_inference"
    /\ last.rules = rules
    /\ observed_logs = scenario_1
    /\ state_order = <<uA, nAB, aA, cA, uB, aB>>
    /\ FactsOf("log") = {uA, nAB, aA, cA}
    /\ state_info[uB].evidence.derived_from_rule = "Lateral Movement A_to_B"

\* the observed admin_access facts whose user_access is not a current fact
PrecursorGaps ==
    {s \in FactsOf("log") :
        StateType(s) = "admin_access"
        /\ Fact("user_access", HostOf(s)) \notin current_states}

\* C10: infer_missing_steps creates user_access:H, hypothetical, 0.3, mechanism
\* unknown, its reason naming admin_access:H, for every precursor gap; when the
\* only observed fact is admin_access:A it creates that one fact and returns 1
C10_PrecursorGap ==
    [][CallOf("infer_missing_steps") =>
          /\ \A s \in PrecursorGaps :
                 LET u == Fact("user_access", HostOf(s)) IN
                 /\ u \in current_states'
                 /\ u \in Facts'
                 /\ state_info'[u].origin = "hypothetical"
                 /\ state_info'[u].confidence = Rat(3, 10)
                 /\ state_confidence'[u] = Rat(3, 10)
                 /\ state_info'[u].evidence.mechanism = "unknown"
                 /\ state_info'[u].evidence.reason = <<"Required for observed", s>>
          /\ (observed_logs = admin_only /\ FactsOf("log") = {aA}
                 /\ FactsOf("hypothetical") = {} /\ uA \notin current_states) =>
                 /\ last'.ret = 1
                 /\ Facts' \ Facts = {uA}
                 /\ FactsOf("hypothetical")' = {uA}]_vars

C10_Witness ==
    /\ last.op = "infer_missing_steps"
    /\ last.ret = 1
    /\ observed_logs = admin_only
    /\ FactsOf("log") = {aA}
    /\ FactsOf("hypothetical") = {uA}
    /\ state_confidence[uA] = Rat(3, 10)
    /\ state_info[uA].evidence.reason = <<"Required for observed", aA>>

lmB == Fact("lateral_movement", "unknown_to_B")

\* C11: every hypothetical fact has confidence at most 0.3 (0.3 for a
\* precursor gap, 0.25 for a lateral-movement gap), and run_inference and
\* ingest_logs leave it hypothetical and do not raise its confidence
C11_HypotheticalCap ==
    [][/\ \A s \in FactsOf("hypothetical")' :
              /\ Leq(state_confidence'[s], Rat(3, 10))
              /\ state_info'[s].confidence = state_confidence'[s]
              /\ state_confidence'[s] =
                     IF StateType(s) = "lateral_movement" THEN Rat(1, 4)
                     ELSE Rat(3, 10)
       /\ last'.op \in {"run_inference", "ingest_logs"} =>
              \A s \in FactsOf("hypothetical") :
                  /\ s \in FactsOf("hypothetical")'
                  /\ Leq(state_confidence'[s], state_confidence[s])]_vars

\* a login on A was ingested after user_access:A had been hypothesised, next
\* to a hypothetical lateral movement to B
C11_Witness ==
    /\ last.op = "ingest_logs"
    /\ {uA, lmB} \subseteq FactsOf("hypothetical")
    /\ state_confidence[uA] = Rat(3, 10)
    /\ state_confidence[lmB] = Rat(1, 4)
    /\ \E i \in 1..Len(observed_logs) :
           /\ observed_logs[i].event_type = "login"
           /\ observed_logs[i].host = "A"
           /\ observed_logs[i].timestamp < state_info[uA].time

\* the call of calculate_time_gap_penalty that has returned or raised
GapCall == last.op = "calculate_time_gap_penalty"
GapOf(call) == call.current_time - call.precondition_time
HasThreshold(call) == "max_time_gap" \in DOMAIN call.rule

\* C12 (as claimed): with max_time_gap = 0 the function raises nothing for a
\* gap of 0 or more, and tags every positive gap time_gap_exceeded
C12_ZeroThresholdTotal ==
    (GapCall /\ HasThreshold(last) /\ GapOf(last) >= 0) =>
        (last.rule.max_time_gap = 0 =>
            /\ ~last.raised
            /\ GapOf(last) > 0 => last.violation_type = "time_gap_exceeded")

\* C19: the factor and the tag for a threshold T > 0, for no threshold, and
\* for a negative gap; 0.7 at gap 3600 and 0.5 at gap 7200 for T = 3600
C19_TimeGapFactor ==
    GapCall =>
        LET gap == GapOf(last)
            T == IF HasThreshold(last) THEN last.rule.max_time_gap ELSE 0
        IN /\ gap < 0 =>
                 last.penalty = Zero /\ last.violation_type = "causality_violation"
           /\ (gap >= 0 /\ ~HasThreshold(last)) =>
                 last.penalty = One /\ last.violation_type = None
           /\ (T > 0 /\ gap >= 0 /\ gap <= T) =>
                 /\ last.penalty = Sub(One, Rat(3 * gap, 10 * T))
                 /\ Leq(Rat(7, 10), last.penalty)
                 /\ last.violation_type = None
           /\ (T > 0 /\ gap > T) =>
                 /\ last.penalty =
                        MaxR(Rat(1, PowInt(2, (gap - T) \div T)), Rat(1, 10))
                 /\ last.violation_type = "time_gap_exceeded"
           /\ (T = 3600 /\ gap = 3600) => last.penalty = Rat(7, 10)
           /\ (T = 3600 /\ gap = 7200) => last.penalty = Rat(1, 2)

\* the call with T = 3600 and gap 7200 returned 0.5, time_gap_exceeded
C19_Witness ==
    /\ GapCall
    /\ HasThreshold(last) /\ last.rule.max_time_gap = 3600
    /\ GapOf(last) = 7200
    /\ last.penalty = Rat(1, 2)
    /\ last.violation_type = "time_gap_exceeded"

---------------------------------------------------------------------------
(* Narratives *)

\* the fields of a narrative that its reader sees
Snapshot(n) ==
    [states |-> n.states, confidences |-> n.confidences,
     rules_applied |-> n.rules_applied, score |-> n.score]

\* C13: once generate_narrative_variants has returned, no later ingest_logs,
\* run_inference, infer_missing_steps or reset_state changes the fact set,
\* the confidences, the applied-rule list or the score of a narrative it
\* returned
C13_NarrativesImmutable ==
    [][~CallOf("generate_narrative_variants") =>
          /\ Len(narratives') = Len(narratives)
          /\ \A i \in 1..Len(narratives) :
                 Snapshot(narratives'[i]) = Snapshot(narratives[i])]_vars

\* what a reader compares between two narratives
Ranked(n) ==
    [id |-> n.id, states |-> n.states, rules_applied |-> n.rules_applied,
     score |-> n.score]

\* two lists agree, element by element, as far as both reach
AgreeOnPrefix(ns, ms) ==
    \A i \in 1..Len(ns) : i <= Len(ms) => Ranked(ns[i]) = Ranked(ms[i])

Candidates ==
    {narrative_1(Store), narrative_2(Store), narrative_3(Store),
     narrative_4(Store), narrative_5(Store)}

\* candidate c ranks before candidate d: a higher score, or the same score
\* and a lower id
RanksBefore(c, d) ==
    \/ Less(d.score, c.score)
    \/ c.score = d.score /\ c.id < d.id

\* C15: the list returned for 0 <= k has length min(5, k) and non-increasing
\* scores, holds the k best-scoring of the five candidates, and orders
\* candidates of the same score by ascending id
C15_SortedTruncated ==
    last.op = "generate_narrative_variants" =>
        /\ ~last.raised
        /\ Len(narratives) =
               IF last.max_variants < 5 THEN last.max_variants ELSE 5
        /\ \A i \in 1..Len(narratives) :
               \E c \in Candidates : Ranked(c) = Ranked(narratives[i])
        /\ \A i, j \in 1..Len(narratives) :
               i < j => RanksBefore(narratives[i], narratives[j])
        /\ \A c \in Candidates :
               (\A i \in 1..Len(narratives) : narratives[i].id # c.id) =>
                   \A i \in 1..Len(narratives) :
                       RanksBefore(narratives[i], c)

\* a list cut short of the five candidates, with two neighbours of the same
\* score and two of different scores
C15_Witness ==
    /\ last.op = "generate_narrative_variants"
    /\ last.max_variants < 5
    /\ Len(narratives) = last.max_variants
    /\ \E i \in 1..(Len(narratives) - 1) :
           narratives[i].score = narratives[i + 1].score
    /\ \E i \in 1..(Len(narratives) - 1) :
           Less(narratives[i + 1].score, narratives[i].score)

\* the facts of the store whose confidence is strictly above c
FactsAbove(c) == {s \in Facts : Less(c, state_confidence[s])}

\* the applied-rule records, in firing order, whose base confidence is
\* strictly above one half
RecordsAboveHalf ==
    LET Above(r) == Less(Half, r.confidence) IN SelectSeq(applied_rules, Above)

\* the catalogue: the facts and the rule records of the candidate with this id
Catalogue(id) ==
    CASE id = 1 -> [states |-> Facts, rules_applied |-> applied_rules]
      [] id = 2 -> [states |-> Facts \ FactsOf("hypothetical"),
                    rules_applied |-> applied_rules]
      [] id = 3 -> [states |-> FactsAbove(Half),
                    rules_applied |-> RecordsAboveHalf]
      [] id = 4 -> [states |-> FactsOf("log") \cup
                                 (FactsOf("inferred") \cap FactsAbove(Rat(3, 10))),
                    rules_applied |->
                        SubSeq(applied_rules, 1,
                               IF Len(applied_rules) < 2 THEN Len(applied_rules)
                               ELSE 2)]
      [] id = 5 -> [states |-> FactsOf("log"), rules_applied |-> <<>>]

\* C16: the candidates are Full (all facts, all records), Conservative (the
\* facts that are not hypothetical), High-confidence (facts and records
\* strictly above 0.5), Direct (observed facts and inferred facts strictly
\* above 0.3, at most the first two records) and Minimal (observed facts, no
\* record), with ids 1 to 5
C16_Catalogue ==
    last.op = "generate_narrative_variants" =>
        /\ \A i \in 1..Len(narratives) :
               /\ narratives[i].id \in 1..5
               /\ narratives[i].states = Catalogue(narratives[i].id).states
               /\ narratives[i].rules_applied =
                      Catalogue(narratives[i].id).rules_applied
               /\ narratives[i].confidences =
                      Restrict(state_confidence, narratives[i].states)
        /\ last.max_variants >= 5 =>
               {narratives[i].id : i \in 1..Len(narratives)} = 1..5

\* all five candidates of a store with three applied-rule records or more,
\* some of base confidence above one half and some not, and inferred facts
\* on both sides of the threshold of Direct
C16_Witness ==
    /\ last.op = "generate_narrative_variants"
    /\ last.max_variants >= 5
    /\ Len(narratives) = 5
    /\ Len(applied_rules) >= 3
    /\ \E s \in FactsOf("inferred") : Less(Rat(3, 10), state_confidence[s])
    /\ \E s \in FactsOf("inferred") : Leq(state_confidence[s], Rat(3, 10))
    /\ \E i \in 1..Len(applied_rules) : Leq(applied_rules[i].confidence, Half)
    /\ \E i \in 1..Len(applied_rules) : Less(Half, applied_rules[i].confidence)

\* the number of facts of the set whose origin in the store is origin
NumberOf(states, origin) == Cardinality(states \cap FactsOf(origin))

\* the mean of the confidences of the facts
MeanConfidence(states) ==
    LET total == SumOver(state_confidence, states)
    IN Rat(total[1], total[2] * Cardinality(states))

\* 0.4 mean + 0.3 coverage + 0.2 parsimony + 0.1 hypothetical penalty
ScoreOf(states, records) ==
    Add(Add(Add(Mul(Rat(4, 10), MeanConfidence(states)),
                Mul(Rat(3, 10),
                    Rat(NumberOf(states, "log"), NumberOf(Facts, "log")))),
            Mul(Rat(2, 10), Rat(10, 10 + records))),
        Mul(Rat(1, 10), Pow(Rat(8, 10), NumberOf(states, "hypothetical"))))

---------------------------------------------------------------------------
(* Absence of evidence *)

\* an ingested log of an event type expected for the fact names its host
EvidenceIngested(s) ==
    \E i \in 1..Len(observed_logs) :
        /\ observed_logs[i].event_type \in EXPECTED_EVIDENCE[StateType(s)]
        /\ observed_logs[i].host = HostOf(s)

\* the facts a step of run_inference derives
Derived == FactsOf("inferred")' \ Facts

\* the least confidence, after the step, of the facts of pre
MinConfidence(pre) ==
    CHOOSE m \in {state_confidence'[p] : p \in pre} :
        \A p \in pre : Leq(m, state_confidence'[p])

---------------------------------------------------------------------------
(* The value infer_missing_steps returns *)

\* C20: infer_missing_steps returns the number of hypothetical facts that
\* the call added to the store and that were not in it before; a call that
\* adds no fact returns 0
C20_ReturnsNewHypotheses ==
    [][CallOf("infer_missing_steps") =>
          /\ last'.ret = Cardinality(FactsOf("hypothetical")' \ Facts)
          /\ Facts' = Facts => last'.ret = 0]_vars

---------------------------------------------------------------------------
(* Sequence numbers *)

\* the sequence numbers that facts and applied-rule records carry
EventIds ==
    {state_info[s].event_id : s \in Facts} \cup
    {applied_rules[i].event_id : i \in 1..Len(applied_rules)}

\* the sequence numbers of the facts and the records that a step creates
CreatedEventIds ==
    {state_info'[s].event_id : s \in Facts' \ Facts} \cup
    {applied_rules'[i].event_id :
        i \in (Len(applied_rules) + 1)..Len(applied_rules')}

\* C21: a fact or an applied-rule record created by a later call of
\* ingest_logs, run_inference or infer_missing_steps never carries a smaller
\* event_id than one created earlier
C21_MonotonicSequence ==
    [][last'.op \in {"ingest_logs", "run_inference", "infer_missing_steps"} =>
          \A later \in CreatedEventIds : \A earlier \in EventIds :
              earlier <= later]_vars

---------------------------------------------------------------------------
(* Timestamps of inferred facts *)

\* every rule of the rule lists
AllRules ==
    UNION {{rs[i] : i \in 1..Len(rs)} : rs \in RuleSets \cup {movement_rules}}

\* the rules that can have derived the inferred fact s
DerivingRules(s) ==
    {r \in AllRules : /\ r.name = state_info[s].evidence.derived_from_rule
                      /\ s \in r.post}

\* the latest timestamp among the facts of pre
LatestTime(pre) == MaxInt({state_info[p].time : p \in pre})

\* C22: a fact created by run_inference gets max(latest precondition
\* timestamp, now) as its timestamp, and in every state a fact of origin
\* inferred has a timestamp not earlier than that of any precondition of the
\* rule that derived it
C22_TemporalConsistency ==
    [][/\ CallOf("run_inference") =>
              \A s \in FactsOf("inferred")' \ Facts :
                  \A r \in DerivingRules(s)' :
                      state_info'[s].time = MaxInt({LatestTime(r.pre)', now})
       /\ \A s \in FactsOf("inferred")' :
              \A r \in DerivingRules(s)' :
                  \A p \in r.pre \cap Facts' :
                      state_info'[p].time <= state_info'[s].time]_vars

---------------------------------------------------------------------------
(* Rules skipped for causality *)

\* the rules of the list rs of the call in which the call detected a
\* causality violation: not applied before the call, and blocked on the store
\* the last pass ran on
Detected(rs) ==
    {i \in Blocked(rs)' : rs[i].name \notin AppliedNames(Store)}

\* no other rule of the list has the name of rule i
NameUnique(rs, i) == \A j \in 1..Len(rs) : rs[j].name = rs[i].name => j = i

\* the records of the name in the applied-rule list after the step
RecordsOf(name) ==
    {k \in 1..Len(applied_rules') : applied_rules'[k].name = name}

\* the facts the step created that name the rule as their source
CreatedBy(name) ==
    {s \in FactsOf("inferred")' \ Facts :
        state_info'[s].evidence.derived_from_rule = name}

\* C23 (as claimed): a rule for which run_inference detects a causality
\* violation is recorded once in the applied-rule list and creates no fact
C23_BlockedCountsAsFired ==
    [][\A rs \in RuleSets :
          (CallOf("run_inference") /\ last'.rules = rs) =>
              \A i \in Detected(rs) :
                  NameUnique(rs, i) =>
                      /\ Cardinality(RecordsOf(rs[i].name)) = 1
                      /\ CreatedBy(rs[i].name) = {}]_vars

\* C23 (amended): such a rule is skipped: it gets no record in the
\* applied-rule list, so the applied check passes it to evaluation again in
\* every later pass and call, and it creates no fact
C23_BlockedSkipped ==
    [][\A rs \in RuleSets :
          (CallOf("run_inference") /\ last'.rules = rs) =>
              \A i \in Detected(rs) :
                  NameUnique(rs, i) =>
                      /\ RecordsOf(rs[i].name) = {}
                      /\ ~AlreadyApplied(Store, rs[i])'
                      /\ CreatedBy(rs[i].name) = {}]_vars

\* a call in which the escalation on A was blocked by the earlier
\* admin_access:A while the credential dumping fired
C23_Witness ==
    /\ last.op = "run_inference"
    /\ last.rules = rules
    /\ 1 \in Blocked(rules)
    /\ AppliedNames(Store) = {rules[2].name}
    /\ cA \in FactsOf("inferred")

---------------------------------------------------------------------------
(* The lateral-movement gap *)

\* an observed user_access:B, B not being the initial host, without both a
\* network_access fact from A into B and a credential_dumped fact current
MovementGap ==
    /\ uB \in FactsOf("log")
    /\ ~(/\ nAB \in current_states
         /\ \E e \in current_states : StateType(e) = "credential_dumped")

---------------------------------------------------------------------------
(* What inference writes *)

\* the records the step appended to the applied-rule list
NewRecords == (Len(applied_rules) + 1)..Len(applied_rules')

\* the rules of the list rs that have the name and the fact s among their
\* postconditions
RulesFor(rs, name, s) ==
    {i \in 1..Len(rs) : rs[i].name = name /\ s \in rs[i].post}

\* C25: run_inference leaves every fact that was in the store unchanged
\* (origin, confidence, timestamp, provenance, event_id and its entry of the
\* confidence map), whatever its origin, and a fact it creates is of origin
\* inferred and names the first rule of the call that fired with the fact
\* among its postconditions
C25_InferenceWritesOnlyNew ==
    [][\A rs \in RuleSets \cup {movement_rules} :
          (CallOf("run_inference") /\ last'.rules = rs) =>
              /\ \A s \in Facts :
                     /\ s \in Facts'
                     /\ state_info'[s] = state_info[s]
                     /\ state_confidence'[s] = state_confidence[s]
              /\ \A s \in Facts' \ Facts :
                     /\ state_info'[s].origin = "inferred"
                     /\ \A k \in NewRecords :
                            RulesFor(rs, applied_rules'[k].name, s) # {} =>
                                \E j \in NewRecords :
                                    /\ j <= k
                                    /\ applied_rules'[j].name =
                                         state_info'[s].evidence.derived_from_rule]_vars

\* a call in which both rules with admin_access:A among their
\* postconditions fired, the first of them creating it, while user_access:B,
\* a postcondition of the second, was a hypothetical fact and stayed one
C25_Witness ==
    /\ last.op = "run_inference"
    /\ last.rules = overlap_rules
    /\ AppliedNames(Store) = {overlap_rules[1].name, overlap_rules[2].name}
    /\ aA \in FactsOf("inferred")
    /\ state_info[aA].evidence.derived_from_rule = overlap_rules[1].name
    /\ uB \in FactsOf("hypothetical")
    /\ state_confidence[uB] = Rat(3, 10)


---------------------------------------------------------------------------
(* Consistency of the store *)

\* operations called in SpecZeroGap
MaxZeroGapCalls == 3

\* a rule list whose rule declares max_time_gap = 0
zero_gap_rules == << GapRule(<<0>>) >>

\* ingest_logs, run_inference and infer_missing_steps with zero_gap_rules
\* among the rule lists, at most MaxZeroGapCalls calls
WithinZeroGap == calls < MaxZeroGapCalls

NextZeroGap ==
    \/ \E logs \in LogBatches : WithinZeroGap /\ Ingest(logs)
    \/ \E rs \in RuleSets \cup {zero_gap_rules} : WithinZeroGap /\ RunInference(rs)
    \/ WithinZeroGap /\ InferMissingSteps
    \/ Tick

SpecZeroGap == Init /\ [][NextZeroGap]_vars

\* C26 (as claimed): the current fact identifiers, the keys of the fact-info
\* map and the keys of the confidence map are the same set in every state
\* reachable by ingest_logs, run_inference and infer_missing_steps
C26_StoreConsistency ==
    /\ current_states = DOMAIN state_info
    /\ DOMAIN state_info = DOMAIN state_confidence


---------------------------------------------------------------------------
(* When negative evidence counts *)

\* the number of contradicting logs recorded against the fact
Contradictions(s) ==
    IF s \in DOMAIN negative_evidence THEN Len(negative_evidence[s]) ELSE 0

\* C27: an observed fact has confidence 1 however many contradicting logs
\* are recorded against it; ingest_logs changes no inferred fact and no
\* confidence of one; a fact run_inference creates has the negative factor
\* 0.8^n for the n contradicting logs recorded when the rule fires
C27_NegativeEvidenceAtInference ==
    [][/\ \A s \in FactsOf("log")' : state_confidence'[s] = One
       /\ CallOf("ingest_logs") =>
              \A s \in FactsOf("inferred") :
                  /\ s \in FactsOf("inferred")'
                  /\ state_confidence'[s] = state_confidence[s]
                  /\ state_info'[s] = state_info[s]
       /\ CallOf("run_inference") =>
              \A s \in FactsOf("inferred")' \ Facts :
                  /\ state_info'[s].evidence.negative_penalty =
                         Pow(Rat(8, 10), Contradictions(s))
                  /\ \E c \in {Mul(Mul(Mul(state_info'[s].evidence.time_gap_penalty,
                                           state_info'[s].evidence.absence_penalty),
                                       state_info'[s].evidence.time_decay),
                                   state_info'[s].evidence.negative_penalty)} :
                         \E r \in DerivingRules(s)' :
                             state_confidence'[s] =
                                 Mul(MinR(r.confidence,
                                          MinOf({state_confidence'[p] : p \in r.pre})), c)]_vars

\* a second logout on A was ingested after admin_access:A had been inferred
\* with one logout recorded: its factor is still 0.8, and the observed
\* user_access:A, contradicted twice, has confidence 1
C27_Witness ==
    /\ last.op = "ingest_logs"
    /\ aA \in FactsOf("inferred")
    /\ Contradictions(aA) = 2
    /\ state_info[aA].evidence.negative_penalty = Rat(8, 10)
    /\ uA \in FactsOf("log")
    /\ Contradictions(uA) = 2
    /\ state_confidence[uA] = One


---------------------------------------------------------------------------
(* A causality violation suppresses the whole rule *)

\* the edges of the graph after the step that touch the node
EdgesAt(node) == {e \in G_edges' : e[1] = node \/ e[2] = node}

\* C28: a rule for which run_inference detects a causality violation on one
\* postcondition creates none of its other postconditions, and the graph
\* gets no node for the rule and no edge from a precondition to it
C28_ViolationSuppressesRule ==
    [][\A rs \in RuleSets :
          (CallOf("run_inference") /\ last'.rules = rs) =>
              \A i \in Detected(rs) :
                  NameUnique(rs, i) =>
                      /\ \A post \in rs[i].post \ Facts :
                             post \in Facts' =>
                                 /\ state_info'[post].origin = "inferred"
                                 /\ state_info'[post].evidence.derived_from_rule
                                        # rs[i].name
                      /\ RuleNode(rs[i]) \notin DOMAIN G_nodes'
                      /\ EdgesAt(RuleNode(rs[i])) = {}]_vars

\* "Dump and move" was blocked by the admin_access:A observed before the
\* credential dump: its other postcondition user_access:B was not created
\* and it has no node, while "Escalate from session" fired and has one
C28_Witness ==
    /\ last.op = "run_inference"
    /\ last.rules = overlap_rules
    /\ 2 \in Blocked(overlap_rules)
    /\ aA \in FactsOf("log")
    /\ uB \notin current_states
    /\ RuleNode(overlap_rules[2]) \notin DOMAIN G_nodes
    /\ RuleNode(overlap_rules[1]) \in DOMAIN G_nodes


---------------------------------------------------------------------------
(* Provenance of inferred facts *)

\* C29: every fact of origin inferred names a rule that has a record in the
\* applied-rule list, has the fact among its postconditions, and has all its
\* preconditions among the current facts
C29_ProvenanceSound ==
    \A s \in FactsOf("inferred") :
        /\ state_info[s].evidence.derived_from_rule \in AppliedNames(Store)
        /\ DerivingRules(s) # {}
        /\ \A r \in DerivingRules(s) : r.pre \subseteq current_states

\* the four facts of the chain were inferred by the four shipped rules, each
\* with its record, from the observed login on A and session into B
C29_Witness ==
    /\ last.op = "run_inference"
    /\ FactsOf("inferred") = {aA, cA, uB, aB}
    /\ FactsOf("log") = {uA, nAB}
    /\ Len(applied_rules) = 4
    /\ \A s \in FactsOf("inferred") : Cardinality(DerivingRules(s)) = 1


---------------------------------------------------------------------------
(* Nesting of the candidates *)

\* store operations called in SpecCompare before the narratives are generated
MaxCompareCalls == 3

\* compare_narratives(narratives): the comparison it returns
compare_narratives(ns) ==
    LET ids == {ns[i].id : i \in 1..Len(ns)}
        states_of(id) ==
            LET at == {i \in 1..Len(ns) : ns[i].id = id}
            IN ns[CHOOSE i \in at : \A j \in at : j <= i].states
        shared_states ==
            IF ns = <<>> THEN {}
            ELSE {s \in ns[1].states : \A i \in 2..Len(ns) : s \in ns[i].states}
    IN [all_states |-> UNION {ns[i].states : i \in 1..Len(ns)},
        narrative_states |-> [id \in ids |-> states_of(id)],
        unique_to_narrative |-> [id \in ids |-> states_of(id) \ shared_states],
        shared_states |-> shared_states]

\* comparison = compare_narratives(narratives), on the list the generator
\* returned; the comparison is kept in last
CompareNarratives ==
    /\ last.op = "generate_narrative_variants"
    /\ ~last.raised
    /\ last' = [op |-> "compare_narratives",
                comparison |-> compare_narratives(narratives)]
    /\ UNCHANGED <<state_info, state_order, state_confidence, current_states,
                   applied_rules, G_nodes, G_edges, observed_logs,
                   negative_evidence, hypothetical_states, event_counter,
                   rebound, now, calls, narratives>>

\* the store is still being built: no narrative was generated yet
Building ==
    /\ last.op \notin {"generate_narrative_variants", "compare_narratives"}
    /\ calls < MaxCompareCalls

\* the operations that build a store, at most MaxCompareCalls of them, then
\* the five narratives generated and compared as the demos do
NextCompare ==
    \/ \E logs \in LogBatches : Building /\ Ingest(logs)
    \/ \E rs \in RuleSets \cup {weak_rules} : Building /\ RunInference(rs)
    \/ Building /\ InferMissingSteps
    \/ Building /\ Tick
    \/ /\ last.op \notin {"generate_narrative_variants", "compare_narratives"}
       /\ GenerateNarrativeVariants(5)
    \/ CompareNarratives

SpecCompare == Init /\ [][NextCompare]_vars

\* the facts of the narrative with the id in the list compared
StatesOf(id) == last.comparison.narrative_states[id]

\* the score of a narrative over the facts with full coverage: 0.4 mean +
\* 0.3 + 0.2 parsimony + 0.1 hypothetical penalty
ScoreAtFullCoverage(states, records) ==
    Add(Add(Add(Mul(Rat(4, 10), MeanConfidence(states)), Rat(3, 10)),
            Mul(Rat(2, 10), Rat(10, 10 + records))),
        Mul(Rat(1, 10), Pow(Rat(8, 10), NumberOf(states, "hypothetical"))))

\* C30: the five candidates of a store are nested, Minimal in Direct in
\* Conservative in Full and High-confidence in Conservative; each contains
\* every observed fact, so with an observed fact in the store each has the
\* coverage term 1, and the facts shared by all five are the observed facts
C30_NarrativeNesting ==
    last.op = "compare_narratives" =>
        /\ DOMAIN last.comparison.narrative_states = 1..5
        /\ StatesOf(5) \subseteq StatesOf(4)
        /\ StatesOf(4) \subseteq StatesOf(2)
        /\ StatesOf(2) \subseteq StatesOf(1)
        /\ StatesOf(3) \subseteq StatesOf(2)
        /\ \A id \in 1..5 : FactsOf("log") \subseteq StatesOf(id)
        /\ FactsOf("log") # {} =>
               \A i \in 1..Len(narratives) :
                   narratives[i].score =
                       ScoreAtFullCoverage(narratives[i].states,
                                           Len(narratives[i].rules_applied))
        /\ last.comparison.shared_states = FactsOf("log")
        /\ \A id \in 1..5 :
               last.comparison.unique_to_narrative[id] =
                   StatesOf(id) \ FactsOf("log")

\* five narratives compared on a store with observed, inferred and
\* hypothetical facts: Minimal, Direct and Full differ, and High-confidence
\* is neither Conservative nor Direct
C30_Witness ==
    /\ last.op = "compare_narratives"
    /\ StatesOf(5) # StatesOf(4)
    /\ StatesOf(2) # StatesOf(1)
    /\ StatesOf(3) # StatesOf(2)
    /\ StatesOf(3) # StatesOf(4)
    /\ StatesOf(5) # {}

====
